---- MODULE Spec2Model ----
(***************************************************************************)
(* ShapeTracker of tinygrad/shape/__init__.py as a state machine.          *)
(*                                                                         *)
(* A tuple of the source is a sequence (1-indexed here; axis numbers that  *)
(* appear in arguments stay 0-based as in the source).  A view is a record *)
(* with the slots of View and ZeroView; the slots a class does not have    *)
(* are empty.  Index resolution is modelled by the value the emitted       *)
(* expression takes at a concrete index: Python's // and % on integers     *)
(* (floor division), which is what \div and % are here for a positive      *)
(* divisor.                                                                *)
(***************************************************************************)
EXTENDS Integers, Sequences, FiniteSets, TLC

\* Bounds of the exploration.
MaxRank == 2
MaxSize == 6
MaxOps == 3
PadMax == 1
ShrinkMax == 1
ExpandMax == 3
CloneOps == 2
WideRank == 3
WideOps == 2
CacheOps == 2

VARIABLES views, orig, last, nops, clone, cache
vars == <<views, orig, last, nops, clone, cache>>

(***************************************************************************)
(* Python helpers                                                          *)
(***************************************************************************)
Abs(x) == IF x < 0 THEN -x ELSE x
Min(a, b) == IF a < b THEN a ELSE b

RECURSIVE prod(_)
prod(s) == IF Len(s) = 0 THEN 1 ELSE s[1] * prod(Tail(s))

RECURSIVE SumSeq(_)
SumSeq(s) == IF Len(s) = 0 THEN 0 ELSE s[1] + SumSeq(Tail(s))

\* a % b == 0 in Python, b # 0 of either sign
Divides(b, a) == a % Abs(b) = 0
\* a // b in Python when b divides a
ExactDiv(a, b) == IF b > 0 THEN a \div b ELSE (-a) \div (-b)

\* tuple(x for x in s if x != 1)
NonOnes(s) == SelectSeq(s, LAMBDA x : x # 1)

(***************************************************************************)
(* to_shape_strides, strides_for_shape                                     *)
(***************************************************************************)
RECURSIVE tss_loop(_, _, _, _)
tss_loop(shape, strides, i, ret) ==
  IF i > Len(shape) THEN ret
  ELSE LET l == ret[Len(ret)] IN
       IF \/ (strides[i] # 0 /\ l[2] = shape[i] * strides[i])
          \/ l[1] = 1
          \/ (strides[i] = 0 /\ l[2] = 0)
       THEN tss_loop(shape, strides, i + 1,
                     [ret EXCEPT ![Len(ret)] = <<l[1] * shape[i], strides[i]>>])
       ELSE tss_loop(shape, strides, i + 1, Append(ret, <<shape[i], strides[i]>>))

to_shape_strides(shape, strides) ==
  IF Len(shape) = 0 THEN <<>>
  ELSE tss_loop(shape, strides, 2, << <<shape[1], strides[1]>> >>)

strides_for_shape(shape) ==
  IF Len(shape) = 0 THEN <<1>>
  ELSE [i \in 1..Len(shape) |-> prod(SubSeq(shape, i + 1, Len(shape)))]

(***************************************************************************)
(* View, ZeroView                                                          *)
(***************************************************************************)
View(shape, strides, offset) ==
  LET n   == Min(Len(shape), Len(strides))
      st  == [i \in 1..n |-> IF shape[i] # 1 THEN strides[i] ELSE 0]
      sfs == strides_for_shape(shape)
  IN [kind       |-> "View",
      shape      |-> shape,
      strides    |-> st,
      offset     |-> offset,
      shape_strides |-> to_shape_strides(shape, st),
      contiguous |-> /\ offset = 0
                     /\ \A i \in 1..n : st[i] = sfs[i] \/ shape[i] = 1,
      old_shape  |-> <<>>,
      arg        |-> <<>>]

ZeroView(old_shape, arg) ==
  LET shape == [i \in 1..Len(arg) |-> arg[i][2] - arg[i][1]]
  IN [kind       |-> "ZeroView",
      shape      |-> shape,
      strides    |-> strides_for_shape(shape),
      offset     |-> 0,
      shape_strides |-> <<>>,
      contiguous |-> FALSE,
      old_shape  |-> old_shape,
      arg        |-> arg]

\* view_from_shape with unit strides instead of strides_for_shape
view_from_shape_unit(shape) == View(shape, [i \in 1..Len(shape) |-> 1], 0)

view_from_shape(shape) == View(shape, strides_for_shape(shape), 0)

\* View.expr_node at a concrete linear index
RECURSIVE expr_node_loop(_, _, _, _)
expr_node_loop(ss, j, acc, idx) ==
  IF j = 0 THEN 0
  ELSE LET d == ss[j][1]
           s == ss[j][2]
       IN (IF d # 1 /\ s # 0 THEN ((idx \div acc) % d) * s ELSE 0)
          + expr_node_loop(ss, j - 1, acc * d, idx)

View_expr_node(v, idx) ==
  LET ss == v.shape_strides IN v.offset + expr_node_loop(ss, Len(ss), 1, idx)

\* View.expr_idxs at concrete per-dimension indices
View_expr_idxs(v, idxs) ==
  LET n == Min(Len(idxs), Min(Len(v.shape), Len(v.strides)))
  IN v.offset + SumSeq([i \in 1..n |->
       IF v.shape[i] # 1 /\ v.strides[i] # 0 THEN idxs[i] * v.strides[i] ELSE 0])

\* ZeroView.expr_node without the upper bounds check (base < s)
ZeroView_expr_node_no_upper(z, idx, valid) ==
  LET n == Min(Len(z.old_shape), Min(Len(z.shape), Len(z.arg)))
  IN /\ valid
     /\ \A i \in 1..n :
          LET acc  == prod(SubSeq(z.shape, i + 1, n))
              base == ((idx \div acc) % z.shape[i]) + z.arg[i][1]
          IN z.arg[i][1] < 0 => base >= 0

\* ZeroView.expr_node at a concrete linear index: the conjunction of the
\* bounds checks with the validity so far
ZeroView_expr_node(z, idx, valid) ==
  LET n == Min(Len(z.old_shape), Min(Len(z.shape), Len(z.arg)))
  IN /\ valid
     /\ \A i \in 1..n :
          LET acc  == prod(SubSeq(z.shape, i + 1, n))
              base == ((idx \div acc) % z.shape[i]) + z.arg[i][1]
          IN /\ (z.arg[i][1] < 0 => base >= 0)
             /\ (z.arg[i][2] > z.old_shape[i] => base < z.old_shape[i])

(***************************************************************************)
(* Symbolic nodes (tinygrad.shape.symbolic).  A node is a record           *)
(* [tag, c, lo, hi]: "Num" (NumNode, c = b), "Var" (Variable), "Mul"       *)
(* (MulNode of a Variable, c = b), "Other" (every other node); lo and hi   *)
(* are the node's min and max.  Only the variable 'idx' occurs.            *)
(***************************************************************************)
Sym_num(c) == [tag |-> "Num", c |-> c, lo |-> c, hi |-> c]
Sym_other(lo, hi) == [tag |-> "Other", c |-> 0, lo |-> lo, hi |-> hi]
Sym_lin(k, lo, hi) ==
  IF k = 0 THEN Sym_num(0)
  ELSE [tag |-> IF k = 1 THEN "Var" ELSE "Mul", c |-> k, lo |-> lo, hi |-> hi]
Sym_isLin(e) == e.tag \in {"Var", "Mul"}

Sym_var(lo, hi) == IF lo < hi THEN Sym_lin(1, lo, hi) ELSE Sym_num(lo)

Sym_mul(e, k) ==
  IF k = 0 THEN Sym_num(0)
  ELSE IF k = 1 THEN e
  ELSE LET lo == IF k > 0 THEN e.lo * k ELSE e.hi * k
           hi == IF k > 0 THEN e.hi * k ELSE e.lo * k
       IN IF e.tag = "Num" THEN Sym_num(e.c * k)
          ELSE IF Sym_isLin(e) THEN Sym_lin(e.c * k, lo, hi)
          ELSE Sym_other(lo, hi)

\* k > 0
Sym_div(e, k) ==
  IF e.lo >= 0 /\ e.hi < k THEN Sym_num(0)
  ELSE IF e.tag = "Num" /\ e.c % k = 0 THEN Sym_num(e.c \div k)
  ELSE IF Sym_isLin(e) /\ e.c % k = 0 THEN Sym_lin(e.c \div k, e.lo \div k, e.hi \div k)
  ELSE Sym_other(e.lo \div k, e.hi \div k)

\* k > 0
Sym_mod(e, k) ==
  IF e.lo >= 0 /\ e.hi < k THEN e
  ELSE IF e.tag = "Num" /\ e.c % k = 0 THEN Sym_num(0)
  ELSE IF Sym_isLin(e) /\ e.c % k = 0 THEN Sym_num(0)
  ELSE Sym_other(0, k - 1)

Sym_sum(xs) ==
  LET n     == Len(xs)
      const == SumSeq([i \in 1..n |-> IF xs[i].tag = "Num" THEN xs[i].c ELSE 0])
      coef  == SumSeq([i \in 1..n |-> IF Sym_isLin(xs[i]) THEN xs[i].c ELSE 0])
      lo    == SumSeq([i \in 1..n |-> xs[i].lo])
      hi    == SumSeq([i \in 1..n |-> xs[i].hi])
  IN IF \E i \in 1..n : xs[i].tag = "Other" THEN Sym_other(lo, hi)
     ELSE IF coef = 0 THEN Sym_num(const)
     ELSE IF const = 0 THEN Sym_lin(coef, lo, hi)
     ELSE Sym_other(lo, hi)

Sym_ge(e, k) ==
  IF e.hi < k THEN Sym_num(0) ELSE IF e.lo >= k THEN Sym_num(1) ELSE Sym_other(0, 1)
Sym_lt(e, k) ==
  IF e.hi < k THEN Sym_num(1) ELSE IF e.lo >= k THEN Sym_num(0) ELSE Sym_other(0, 1)

Sym_ands(xs) ==
  LET ys == SelectSeq(xs, LAMBDA x : ~(x.tag = "Num" /\ x.c = 1))
  IN IF \E i \in 1..Len(xs) : xs[i].tag = "Num" /\ xs[i].c = 0 THEN Sym_num(0)
     ELSE IF Len(ys) = 0 THEN Sym_num(1)
     ELSE IF Len(ys) = 1 THEN ys[1]
     ELSE Sym_other(0, 1)

\* View.expr_node applied to a node
RECURSIVE sym_expr_node_loop(_, _, _, _)
sym_expr_node_loop(ss, j, acc, e) ==
  IF j = 0 THEN <<>>
  ELSE LET d == ss[j][1]
           s == ss[j][2]
       IN (IF d # 1 /\ s # 0
           THEN <<Sym_mul(Sym_mod(Sym_div(e, acc), d), s)>> ELSE <<>>)
          \o sym_expr_node_loop(ss, j - 1, acc * d, e)

Sym_View_expr_node(v, e) ==
  LET ss == v.shape_strides
  IN Sym_sum(<<Sym_num(v.offset)>> \o sym_expr_node_loop(ss, Len(ss), 1, e))

\* ZeroView.expr_node() with the default idx and no valid: the checks of
\* one dimension, then the conjunction
Sym_ZeroView_checks(z, i) ==
  LET n    == Len(z.shape)
      idx  == Sym_var(0, prod(z.shape))
      acc  == prod(SubSeq(z.shape, i + 1, n))
      x    == z.arg[i][1]
      y    == z.arg[i][2]
      s    == z.old_shape[i]
      base == Sym_sum(<<Sym_mod(Sym_div(idx, acc), z.shape[i]), Sym_num(x)>>)
  IN (IF x < 0 THEN <<Sym_ge(base, 0)>> ELSE <<>>)
     \o (IF y > s THEN <<Sym_lt(base, s)>> ELSE <<>>)

RECURSIVE Sym_ZeroView_exprs(_, _)
Sym_ZeroView_exprs(z, i) ==
  IF i = 0 THEN <<>> ELSE Sym_ZeroView_checks(z, i) \o Sym_ZeroView_exprs(z, i - 1)

Sym_ZeroView_expr_node(z) == Sym_ands(Sym_ZeroView_exprs(z, Len(z.shape)))

\* idx//acc or % ns with a divisor <= 0 is fatal
Sym_ZeroView_raises(z) == \E i \in 1..Len(z.shape) : z.shape[i] <= 0

(***************************************************************************)
(* ShapeTracker.  A movement operation yields the view list it leaves and  *)
(* whether the call raised.                                                *)
(***************************************************************************)
Top(vs) == vs[Len(vs)]
SetTop(vs, v) == [vs EXCEPT ![Len(vs)] = v]
Returned(vs) == [views |-> vs, raised |-> FALSE]
Raised(vs) == [views |-> vs, raised |-> TRUE]

ShapeTracker_new(shape) == <<view_from_shape(shape)>>

\* ShapeTracker.contiguous without the check of the view's own flag
ShapeTracker_contiguous_len(vs) == Len(vs) = 1

\* a copy that hands the origin's list object to the clone (views, not views[:])
ShapeTracker_copy_alias(vs) == [views |-> vs, same_list |-> TRUE]

\* ShapeTracker.copy (and ShapeTracker(st)): a tracker whose view list is a
\* new list object holding the same views; same_list tells whether the two
\* trackers hold one list object
ShapeTracker_copy(vs) == [views |-> vs, same_list |-> FALSE]

\* the property ShapeTracker.contiguous
ShapeTracker_contiguous(vs) == Len(vs) = 1 /\ Top(vs).contiguous

needs_valid(vs) == \E j \in 1..Len(vs) : vs[j].kind = "ZeroView"

\* _expr_idx: walk views[0:-1] from the top down
RECURSIVE expr_idx_loop(_, _, _, _)
expr_idx_loop(vs, j, idx, valid) ==
  IF j = 0 THEN <<idx, valid>>
  ELSE IF vs[j].kind = "ZeroView"
       THEN expr_idx_loop(vs, j - 1, idx, ZeroView_expr_node(vs[j], idx, valid))
       ELSE expr_idx_loop(vs, j - 1, View_expr_node(vs[j], idx), valid)

\* expr_idxs at concrete indices: <<buffer offset, valid>>
expr_idxs(vs, idxs) ==
  expr_idx_loop(vs, Len(vs) - 1, View_expr_idxs(Top(vs), idxs), TRUE)

\* simplify: the stride recovered for one dimension of the top view, or
\* "none" when the probe does not classify
simplify_dim(below, s, st) ==
  LET this_dim == Sym_View_expr_node(below, Sym_mul(Sym_var(0, s - 1), st))
  IN IF this_dim.tag = "Num" /\ this_dim.c = 0 THEN <<0>>
     ELSE IF this_dim.tag = "Var" THEN <<1>>
     ELSE IF this_dim.tag = "Mul" THEN <<this_dim.c>>
     ELSE <<>>

\* simplify without the test that the top view's offset is 0
RECURSIVE simplify_any_offset(_)
simplify_any_offset(vs) ==
  IF Len(vs) >= 2 /\ vs[Len(vs) - 1].kind = "View"
  THEN LET top   == Top(vs)
           below == vs[Len(vs) - 1]
           n     == Min(Len(top.shape), Len(top.strides))
           dims  == [i \in 1..n |-> simplify_dim(below, top.shape[i], top.strides[i])]
       IN IF \A i \in 1..n : dims[i] # <<>>
          THEN simplify_any_offset(Append(SubSeq(vs, 1, Len(vs) - 2),
                               View(top.shape, [i \in 1..n |-> dims[i][1]], 0)))
          ELSE vs
  ELSE vs

\* simplify without the test that the view below the top is a View
RECURSIVE simplify_any_kind(_)
simplify_any_kind(vs) ==
  IF Len(vs) >= 2 /\ Top(vs).offset = 0
  THEN LET top   == Top(vs)
           below == vs[Len(vs) - 1]
           n     == Min(Len(top.shape), Len(top.strides))
           dims  == [i \in 1..n |-> simplify_dim(below, top.shape[i], top.strides[i])]
       IN IF \A i \in 1..n : dims[i] # <<>>
          THEN simplify_any_kind(Append(SubSeq(vs, 1, Len(vs) - 2),
                               View(top.shape, [i \in 1..n |-> dims[i][1]], 0)))
          ELSE vs
  ELSE vs

RECURSIVE simplify(_)
simplify(vs) ==
  IF Len(vs) >= 2 /\ vs[Len(vs) - 1].kind = "View" /\ Top(vs).offset = 0
  THEN LET top   == Top(vs)
           below == vs[Len(vs) - 1]
           n     == Min(Len(top.shape), Len(top.strides))
           dims  == [i \in 1..n |-> simplify_dim(below, top.shape[i], top.strides[i])]
       IN IF \A i \in 1..n : dims[i] # <<>>
          THEN simplify(Append(SubSeq(vs, 1, Len(vs) - 2),
                               View(top.shape, [i \in 1..n |-> dims[i][1]], 0)))
          ELSE vs
  ELSE vs

\* reshape: the factorization loop over new_shape
RECURSIVE reshape_loop(_, _, _, _, _, _)
reshape_loop(new_shape, i, curr_dim, curr_stride, rest, new_strides) ==
  IF i > Len(new_shape) THEN [strides |-> new_strides, raised |-> FALSE]
  ELSE LET s == new_shape[i] IN
       IF Divides(s, curr_dim)
       THEN LET cd == ExactDiv(curr_dim, s)
                ns == Append(new_strides, curr_stride * cd)
            IN IF cd = 1
               THEN IF Len(rest) = 0
                    THEN IF \A j \in (Len(ns) + 1)..Len(new_shape) : new_shape[j] = 1
                         THEN [strides |-> ns \o [j \in 1..(Len(new_shape) - Len(ns)) |-> 1],
                               raised  |-> FALSE]
                         ELSE [strides |-> ns, raised |-> TRUE]
                    ELSE reshape_loop(new_shape, i + 1, rest[1][1], rest[1][2],
                                      Tail(rest), ns)
               ELSE reshape_loop(new_shape, i + 1, cd, curr_stride, rest, ns)
       ELSE [strides |-> new_strides, raised |-> FALSE]

\* old_strides.pop(0) for each dim of new_shape that is not 1
RECURSIVE ones_strides(_, _)
ones_strides(new_shape, old_strides) ==
  IF Len(new_shape) = 0 THEN <<>>
  ELSE IF new_shape[1] = 1
       THEN <<0>> \o ones_strides(Tail(new_shape), old_strides)
       ELSE <<old_strides[1]>> \o ones_strides(Tail(new_shape), Tail(old_strides))

\* [y for x,y in zip(shape, strides) if x != 1]
RECURSIVE non_one_strides(_, _)
non_one_strides(shape, strides) ==
  IF Len(shape) = 0 \/ Len(strides) = 0 THEN <<>>
  ELSE (IF shape[1] # 1 THEN <<strides[1]>> ELSE <<>>)
       \o non_one_strides(Tail(shape), Tail(strides))

reshape(vs, new_shape) ==
  LET top == Top(vs) IN
  IF top.shape = new_shape THEN Returned(vs)
  ELSE IF \E i \in 1..Len(new_shape) : new_shape[i] = 0 THEN Raised(vs)
  ELSE IF prod(top.shape) # prod(new_shape) THEN Raised(vs)
  ELSE IF NonOnes(top.shape) = NonOnes(new_shape)
  THEN LET old_strides == non_one_strides(top.shape, top.strides)
       IN Returned(SetTop(vs, View(new_shape, ones_strides(new_shape, old_strides),
                                   top.offset)))
  ELSE LET mss == to_shape_strides(top.shape, top.strides)
           f   == reshape_loop(new_shape, 1, mss[1][1], mss[1][2], Tail(mss), <<>>)
           view == View(new_shape, strides_for_shape(new_shape), 0)
       IN IF f.raised THEN Raised(vs)
          ELSE IF Len(new_shape) = Len(f.strides)
          THEN Returned(SetTop(vs, View(new_shape, f.strides, top.offset)))
          ELSE IF ShapeTracker_contiguous(vs) THEN Returned(SetTop(vs, view))
          ELSE Returned(Append(vs, view))

permute(vs, axis) ==
  LET top == Top(vs)
      n   == Len(top.shape)
  IN IF \E k \in 1..Len(axis) : axis[k] < 0 \/ axis[k] >= n THEN Raised(vs)
     ELSE IF Cardinality({axis[k] : k \in 1..Len(axis)}) # Len(axis) \/ Len(axis) # n
     THEN Raised(vs)
     ELSE Returned(SetTop(vs, View([k \in 1..n |-> top.shape[axis[k] + 1]],
                                   [k \in 1..n |-> top.strides[axis[k] + 1]],
                                   top.offset)))

\* expand without the check that a target agrees with a dim that is not 1
expand_unchecked(vs, new_shape) ==
  LET top == Top(vs)
      n   == Min(Len(top.shape), Len(new_shape))
      m   == Min(Len(top.strides), n)
  IN IF m < Len(new_shape) THEN Raised(vs)
     ELSE Returned(SetTop(vs, View(new_shape,
            [i \in 1..m |-> IF top.shape[i] = new_shape[i] THEN top.strides[i] ELSE 0],
            top.offset)))

expand(vs, new_shape) ==
  LET top == Top(vs)
      n   == Min(Len(top.shape), Len(new_shape))
      m   == Min(Len(top.strides), n)
  IN IF \E i \in 1..n : ~(top.shape[i] = new_shape[i] \/ top.shape[i] = 1) THEN Raised(vs)
     ELSE IF m < Len(new_shape) THEN Raised(vs)
     ELSE Returned(SetTop(vs, View(new_shape,
            [i \in 1..m |-> IF top.shape[i] = new_shape[i] THEN top.strides[i] ELSE 0],
            top.offset)))

\* stride with s // abs(m) as the new shape instead of the rounded-up quotient
stride_floor(vs, mul) ==
  LET top == Top(vs)
      n   == Min(Len(top.shape), Len(mul))
      m   == Min(Len(top.strides), Len(mul))
  IN IF \E i \in 1..n : mul[i] = 0 THEN Raised(vs)
     ELSE IF m < n THEN Raised(vs)
     ELSE Returned(SetTop(vs, View(
            [i \in 1..n |-> top.shape[i] \div Abs(mul[i])],
            [i \in 1..m |-> top.strides[i] * mul[i]],
            top.offset + SumSeq([i \in 1..Min(n, m) |->
              IF mul[i] < 0 THEN (top.shape[i] - 1) * top.strides[i] ELSE 0]))))

\* stride that leaves the offset as it was for a negative multiplier
stride_no_offset(vs, mul) ==
  LET top == Top(vs)
      n   == Min(Len(top.shape), Len(mul))
      m   == Min(Len(top.strides), Len(mul))
  IN IF \E i \in 1..n : mul[i] = 0 THEN Raised(vs)
     ELSE IF m < n THEN Raised(vs)
     ELSE Returned(SetTop(vs, View(
            [i \in 1..n |-> (top.shape[i] + (Abs(mul[i]) - 1)) \div Abs(mul[i])],
            [i \in 1..m |-> top.strides[i] * mul[i]],
            top.offset)))

\* stride that moves the offset to the last element of every dim, whatever
\* the sign of its multiplier
stride_offset_all(vs, mul) ==
  LET top == Top(vs)
      n   == Min(Len(top.shape), Len(mul))
      m   == Min(Len(top.strides), Len(mul))
  IN IF \E i \in 1..n : mul[i] = 0 THEN Raised(vs)
     ELSE IF m < n THEN Raised(vs)
     ELSE Returned(SetTop(vs, View(
            [i \in 1..n |-> (top.shape[i] + (Abs(mul[i]) - 1)) \div Abs(mul[i])],
            [i \in 1..m |-> top.strides[i] * mul[i]],
            top.offset + SumSeq([i \in 1..Min(n, m) |->
              (top.shape[i] - 1) * top.strides[i]]))))

stride(vs, mul) ==
  LET top == Top(vs)
      n   == Min(Len(top.shape), Len(mul))
      m   == Min(Len(top.strides), Len(mul))
  IN IF \E i \in 1..n : mul[i] = 0 THEN Raised(vs)
     ELSE IF m < n THEN Raised(vs)
     ELSE Returned(SetTop(vs, View(
            [i \in 1..n |-> (top.shape[i] + (Abs(mul[i]) - 1)) \div Abs(mul[i])],
            [i \in 1..m |-> top.strides[i] * mul[i]],
            top.offset + SumSeq([i \in 1..Min(n, m) |->
              IF mul[i] < 0 THEN (top.shape[i] - 1) * top.strides[i] ELSE 0]))))

flip(vs, axis) ==
  stride(vs, [i \in 1..Len(Top(vs).shape) |->
                IF \E k \in 1..Len(axis) : axis[k] = i - 1 THEN -1 ELSE 1])

\* shrink that leaves the top view's offset as it was
shrink_no_offset(vs, arg) ==
  LET top == Top(vs) IN
  IF Len(arg) # Len(top.shape) THEN Raised(vs)
  ELSE LET zeroview == ZeroView(top.shape, arg)
           v        == View([i \in 1..Len(arg) |-> arg[i][2] - arg[i][1]],
                            top.strides, top.offset)
           vs1      == SetTop(vs, v)
       IN IF Sym_ZeroView_raises(zeroview) THEN Raised(vs1)
          ELSE IF Sym_ZeroView_expr_node(zeroview).lo = 0
          THEN Returned(vs1 \o <<zeroview, View(v.shape, strides_for_shape(v.shape), 0)>>)
          ELSE Returned(vs1)

\* shrink that appends the ZeroView and the View whatever the bounds are
shrink_always_zeroview(vs, arg) ==
  LET top == Top(vs) IN
  IF Len(arg) # Len(top.shape) THEN Raised(vs)
  ELSE LET offset   == SumSeq([i \in 1..Len(arg) |-> top.strides[i] * arg[i][1]])
           zeroview == ZeroView(top.shape, arg)
           v        == View([i \in 1..Len(arg) |-> arg[i][2] - arg[i][1]],
                            top.strides, top.offset + offset)
           vs1      == SetTop(vs, v)
       IN IF Sym_ZeroView_raises(zeroview) THEN Raised(vs1)
          ELSE Returned(vs1 \o <<zeroview, View(v.shape, strides_for_shape(v.shape), 0)>>)

shrink(vs, arg) ==
  LET top == Top(vs) IN
  IF Len(arg) # Len(top.shape) THEN Raised(vs)
  ELSE LET offset   == SumSeq([i \in 1..Len(arg) |-> top.strides[i] * arg[i][1]])
           zeroview == ZeroView(top.shape, arg)
           v        == View([i \in 1..Len(arg) |-> arg[i][2] - arg[i][1]],
                            top.strides, top.offset + offset)
           vs1      == SetTop(vs, v)
       IN IF Sym_ZeroView_raises(zeroview) THEN Raised(vs1)
          ELSE IF Sym_ZeroView_expr_node(zeroview).lo = 0
          THEN Returned(vs1 \o <<zeroview, View(v.shape, strides_for_shape(v.shape), 0)>>)
          ELSE Returned(vs1)

\* pad that passes the before amount to shrink without negating it
pad_unnegated(vs, arg) ==
  LET top == Top(vs) IN
  IF (\E i \in 1..Len(arg) : arg[i][1] < 0 \/ arg[i][2] < 0) \/ Len(arg) # Len(top.shape)
  THEN Raised(vs)
  ELSE shrink(vs, [i \in 1..Len(arg) |-> <<arg[i][1], top.shape[i] + arg[i][2]>>])

pad(vs, arg) ==
  LET top == Top(vs) IN
  IF (\E i \in 1..Len(arg) : arg[i][1] < 0 \/ arg[i][2] < 0) \/ Len(arg) # Len(top.shape)
  THEN Raised(vs)
  ELSE shrink(vs, [i \in 1..Len(arg) |-> <<-arg[i][1], top.shape[i] + arg[i][2]>>])

(***************************************************************************)
(* The state machine.  views is the tracker's view list, orig the shape    *)
(* the tracker was created with (the buffer's), last the latest call and   *)
(* whether it raised, nops the number of movement operations called so     *)
(* far.                                                                    *)
(***************************************************************************)
SeqsUpTo(S, n) == UNION {[1..k -> S] : k \in 1..n}

\* tuples of positive dims
Shapes == {s \in SeqsUpTo(1..MaxSize, MaxRank) : prod(s) <= MaxSize}
\* tuples that may hold zero or negative dims
AnyShapes == {s \in SeqsUpTo((-2)..MaxSize, MaxRank) : Abs(prod(s)) <= MaxSize}

\* every shape entry of every view is positive
Usable(vs) == \A j \in 1..Len(vs) : \A i \in 1..Len(vs[j].shape) : vs[j].shape[i] >= 1
\* the exploration's bound on a result
Bounded(vs) == Abs(prod(Top(vs).shape)) <= MaxSize

\* the other tracker after a movement operation changed a view list in
\* place (views[-1] = ..., views += ..., views.append) and left vs: it sees
\* the change when it holds the same list object
InPlace(c, vs) ==
  IF Len(c) = 1 /\ c[1].same_list THEN <<[c[1] EXCEPT !.views = vs]>> ELSE c
\* the other tracker after simplify() bound self.views to a new list
Rebound(c) ==
  IF Len(c) = 1 THEN <<[c[1] EXCEPT !.same_list = FALSE]>> ELSE c

\* a call of a movement operation that leaves r
Call(op, r) ==
  /\ Bounded(r.views)
  /\ views' = r.views
  /\ clone' = InPlace(clone, r.views)
  /\ last' = [op |-> op, raised |-> r.raised]
  /\ nops' = nops + 1
  /\ UNCHANGED <<orig, cache>>

\* the memo tables of to_shape_strides and view_from_shape (lru_cache), as
\* functions from the arguments to the object held; SpecCache follows them,
\* the other specifications compute the values and leave the tables empty
NoCache == [tss |-> <<>>, vfs |-> <<>>]

\* the number of calls explored: fewer once there is a clone, for a tracker
\* of a rank above MaxRank, and when the memo tables are followed
Budget ==
  IF Len(clone) = 1 THEN CloneOps
  ELSE IF DOMAIN cache.vfs # {} THEN CacheOps
  ELSE IF Len(orig) > MaxRank THEN WideOps
  ELSE MaxOps
\* a tracker the exploration goes on from
CanCall == nops < Budget /\ Usable(views)

Init ==
  \E shape \in Shapes :
    /\ views = ShapeTracker_new(shape)
    /\ orig = shape
    /\ nops = 0
    /\ clone = <<>>
    /\ cache = NoCache
    /\ last = [op |-> "new", raised |-> FALSE]

\* the shapes of the same product up to sign, a shape with a zero and two of
\* another product
ReshapeArgs(shape) ==
  {s \in AnyShapes : Abs(prod(s)) = prod(shape)}
    \cup {<<0>>, <<prod(shape) + 1>>, <<0, prod(shape)>>}

\* the permutations of the axes, and tuples that are none: an axis twice,
\* an axis out of range
IsPermutation(a, n) ==
  /\ Len(a) = n
  /\ \A k \in 1..n : a[k] \in 0..(n - 1)
  /\ \A i, j \in 1..n : a[i] = a[j] => i = j
BadAxes(n) ==
  {a \in {[k \in 1..n |-> 0], [k \in 1..n |-> k]} : ~IsPermutation(a, n)}
PermuteArgs(n) ==
  {a \in [1..n -> 0..(n - 1)] : IsPermutation(a, n)} \cup BadAxes(n)

\* targets that agree with the shape except on dims of size 1, and targets
\* that disagree with one dim that is not 1
BadTargets(shape) ==
  {[shape EXCEPT ![i] = shape[i] + 1] : i \in {k \in 1..Len(shape) : shape[k] # 1}}
ExpandArgs(shape) ==
  {s \in [1..Len(shape) -> (-1)..ExpandMax] :
     \A i \in 1..Len(shape) : s[i] = shape[i] \/ shape[i] = 1}
    \cup BadTargets(shape)

\* bounds inside a dim of size s that cut at most ShrinkMax off each end
\* (lo = hi included), and bounds that reach outside it or have lo > hi
InPairs(s) ==
  {p \in (0..ShrinkMax) \X ((s - ShrinkMax)..s) : p[1] <= p[2] /\ p[2] >= 0}
OutPairs(s) == {<<-PadMax, s>>, <<0, s + PadMax>>, <<1, 0>>}
AllPairs == UNION {InPairs(s) \cup OutPairs(s) : s \in 1..MaxSize}
\* one dim cut or reaching outside, the others whole
ShrinkArgs(shape) ==
  {[j \in 1..Len(shape) |-> IF j = i THEN p ELSE <<0, shape[j]>>] :
     <<i, p>> \in {q \in (1..Len(shape)) \X AllPairs :
                     q[2] \in InPairs(shape[q[1]]) \cup OutPairs(shape[q[1]])}}

PadArgs(shape) == [1..Len(shape) -> (0..PadMax) \X (0..PadMax)]

FlipArgs(shape) ==
  {<<>>} \cup {a \in SeqsUpTo(0..(Len(shape) - 1), Len(shape)) :
                 \A i, j \in 1..Len(a) : i < j => a[i] < a[j]}

\* multipliers without a zero, and two tuples with one
BadMuls(shape) ==
  {[i \in 1..Len(shape) |-> 0], [i \in 1..Len(shape) |-> IF i = 1 THEN 0 ELSE 2]}
StrideArgs(shape) == [1..Len(shape) -> {-2, 1, 2}] \cup BadMuls(shape)

Reshape ==
  /\ CanCall
  /\ \E a \in ReshapeArgs(Top(views).shape) : Call("reshape", reshape(views, a))
Permute ==
  /\ CanCall
  /\ \E a \in PermuteArgs(Len(Top(views).shape)) : Call("permute", permute(views, a))
Expand ==
  /\ CanCall
  /\ \E a \in ExpandArgs(Top(views).shape) : Call("expand", expand(views, a))
Shrink ==
  /\ CanCall
  /\ \E a \in ShrinkArgs(Top(views).shape) : Call("shrink", shrink(views, a))
Pad ==
  /\ CanCall
  /\ \E a \in PadArgs(Top(views).shape) : Call("pad", pad(views, a))
Flip ==
  /\ CanCall
  /\ \E a \in FlipArgs(Top(views).shape) : Call("flip", flip(views, a))
Stride ==
  /\ CanCall
  /\ \E a \in StrideArgs(Top(views).shape) : Call("stride", stride(views, a))
Simplify ==
  /\ Usable(views)
  /\ views' = simplify(views)
  /\ clone' = IF views' # views THEN Rebound(clone) ELSE clone
  /\ last' = [op |-> "simplify", raised |-> FALSE]
  /\ UNCHANGED <<orig, nops, cache>>

Next ==
  \/ Reshape
  \/ Permute
  \/ Expand
  \/ Pad
  \/ Shrink
  \/ Flip
  \/ Stride
  \/ Simplify

Spec == Init /\ [][Next]_vars

\* the movement operations alone, without simplify()
NextMove ==
  \/ Reshape
  \/ Permute
  \/ Expand
  \/ Pad
  \/ Shrink
  \/ Flip
  \/ Stride

SpecMove == Init /\ [][NextMove]_vars

\* the trackers of rank WideRank
WideShapes == {s \in [1..WideRank -> 1..MaxSize] : prod(s) <= MaxSize}
InitWide ==
  \E shape \in WideShapes :
    /\ views = ShapeTracker_new(shape)
    /\ orig = shape
    /\ nops = 0
    /\ clone = <<>>
    /\ cache = NoCache
    /\ last = [op |-> "new", raised |-> FALSE]

SpecWide == InitWide /\ [][Next]_vars

\* every movement operation on a view list, with what it leaves
MoveResults(vs) ==
  LET shape == Top(vs).shape
      All == {[op |-> "reshape", r |-> reshape(vs, a)] : a \in ReshapeArgs(shape)}
        \cup {[op |-> "permute", r |-> permute(vs, a)] : a \in PermuteArgs(Len(shape))}
        \cup {[op |-> "expand", r |-> expand(vs, a)] : a \in ExpandArgs(shape)}
        \cup {[op |-> "pad", r |-> pad(vs, a)] : a \in PadArgs(shape)}
        \cup {[op |-> "shrink", r |-> shrink(vs, a)] : a \in ShrinkArgs(shape)}
        \cup {[op |-> "flip", r |-> flip(vs, a)] : a \in FlipArgs(shape)}
        \cup {[op |-> "stride", r |-> stride(vs, a)] : a \in StrideArgs(shape)}
  IN {x \in All : Bounded(x.r.views)}

\* c = st.copy()
Copy ==
  /\ Len(clone) = 0
  /\ Usable(views)
  /\ clone' = <<ShapeTracker_copy(views)>>
  /\ last' = [op |-> "copy", raised |-> FALSE]
  /\ UNCHANGED <<views, orig, nops, cache>>

\* a movement operation on the clone
OnClone ==
  /\ Len(clone) = 1
  /\ nops < Budget
  /\ Usable(clone[1].views)
  /\ \E x \in MoveResults(clone[1].views) :
       /\ clone' = <<[clone[1] EXCEPT !.views = x.r.views]>>
       /\ views' = IF clone[1].same_list THEN x.r.views ELSE views
       /\ last' = [op |-> x.op, raised |-> x.r.raised]
  /\ nops' = nops + 1
  /\ UNCHANGED <<orig, cache>>

\* simplify() on the clone
CloneSimplify ==
  /\ Len(clone) = 1
  /\ Usable(clone[1].views)
  /\ \E vs \in {simplify(clone[1].views)} :
       clone' = <<[views |-> vs,
                   same_list |-> clone[1].same_list /\ vs = clone[1].views]>>
  /\ last' = [op |-> "simplify", raised |-> FALSE]
  /\ UNCHANGED <<views, orig, nops, cache>>

NextClone ==
  \/ Reshape
  \/ Permute
  \/ Expand
  \/ Pad
  \/ Shrink
  \/ Flip
  \/ Stride
  \/ Simplify
  \/ Copy
  \/ OnClone
  \/ CloneSimplify

SpecClone == Init /\ [][NextClone]_vars

\* the arguments to_shape_strides is called with when View.__init__ builds v
tss_key(v) == <<v.shape, v.strides>>
tss_keys(vs) == {tss_key(vs[j]) : j \in {i \in 1..Len(vs) : vs[i].kind = "View"}}

\* the to_shape_strides table after the Views of vs were built: a hit
\* returns the list the table holds, a miss computes a list and keeps it
tss_memo(tss, vs) ==
  [k \in DOMAIN tss \cup tss_keys(vs) |->
     IF k \in DOMAIN tss THEN tss[k] ELSE to_shape_strides(k[1], k[2])]

\* the view_from_shape table after view_from_shape(shape)
vfs_memo(vfs, shape) ==
  [s \in DOMAIN vfs \cup {shape} |->
     IF s \in DOMAIN vfs THEN vfs[s] ELSE view_from_shape(shape)]

\* a View's shape_strides slot is the list object of the table
Aliased(tss, vs) ==
  [j \in 1..Len(vs) |->
     IF vs[j].kind = "View"
     THEN [vs[j] EXCEPT !.shape_strides = tss[tss_key(vs[j])]]
     ELSE vs[j]]

\* reshape gets as far as the factorization loop
reshape_factorizes(vs, new_shape) ==
  /\ Top(vs).shape # new_shape
  /\ \A i \in 1..Len(new_shape) : new_shape[i] # 0
  /\ prod(Top(vs).shape) = prod(new_shape)
  /\ NonOnes(Top(vs).shape) # NonOnes(new_shape)

\* what the factorization loop leaves of the list it pops from
RECURSIVE reshape_popped(_, _, _, _)
reshape_popped(new_shape, i, curr_dim, rest) ==
  IF i > Len(new_shape) THEN rest
  ELSE IF Divides(new_shape[i], curr_dim)
  THEN LET cd == ExactDiv(curr_dim, new_shape[i])
       IN IF cd = 1
          THEN IF Len(rest) = 0 THEN rest
               ELSE reshape_popped(new_shape, i + 1, rest[1][1], Tail(rest))
          ELSE reshape_popped(new_shape, i + 1, cd, rest)
  ELSE rest

\* a reshape that pops from the list of the table itself
tss_after_reshape_shared(tss, vs, new_shape) ==
  IF reshape_factorizes(vs, new_shape) /\ tss_key(Top(vs)) \in DOMAIN tss
  THEN LET l == tss[tss_key(Top(vs))]
       IN IF Len(l) = 0 THEN tss
          ELSE [tss EXCEPT ![tss_key(Top(vs))] =
                  reshape_popped(new_shape, 1, l[1][1], Tail(l))]
  ELSE tss

\* the to_shape_strides table after reshape's factorization: the loop pops
\* from min_shape_strides, a copy ([:]) of the list of the table
tss_after_reshape(tss, vs, new_shape) == tss

\* a first tracker, built with empty tables
InitCache ==
  \E shape \in Shapes :
    /\ cache = [tss |-> tss_memo(<<>>, ShapeTracker_new(shape)),
                 vfs |-> vfs_memo(<<>>, shape)]
    /\ views = Aliased(cache.tss, <<cache.vfs[shape]>>)
    /\ orig = shape
    /\ nops = 0
    /\ clone = <<>>
    /\ last = [op |-> "new", raised |-> FALSE]

\* ShapeTracker(shape): another tracker, from the tables as they are
CacheNew ==
  /\ nops < Budget
  /\ \E shape \in Shapes :
       /\ cache' = [vfs |-> vfs_memo(cache.vfs, shape),
                     tss |-> tss_memo(cache.tss, <<vfs_memo(cache.vfs, shape)[shape]>>)]
       /\ views' = Aliased(cache'.tss, <<cache'.vfs[shape]>>)
       /\ orig' = shape
  /\ last' = [op |-> "new", raised |-> FALSE]
  /\ nops' = nops + 1
  /\ UNCHANGED clone

\* a call that leaves r and the to_shape_strides table tss, with the
\* Views it builds
CacheCall(op, r, tss) ==
  /\ Bounded(r.views)
  /\ cache' = [cache EXCEPT !.tss = tss_memo(tss, r.views)]
  /\ views' = Aliased(cache'.tss, r.views)
  /\ last' = [op |-> op, raised |-> r.raised]
  /\ nops' = nops + 1
  /\ UNCHANGED <<orig, clone>>

CacheReshape ==
  /\ CanCall
  /\ \E a \in ReshapeArgs(Top(views).shape) :
       CacheCall("reshape", reshape(views, a), tss_after_reshape(cache.tss, views, a))

\* a movement operation other than reshape
CacheOp ==
  /\ CanCall
  /\ \E x \in MoveResults(views) :
       x.op # "reshape" /\ CacheCall(x.op, x.r, cache.tss)

\* simplify(), with the View it builds
CacheSimplify ==
  /\ Usable(views)
  /\ \E vs \in {simplify(views)} :
       /\ cache' = [cache EXCEPT !.tss = tss_memo(cache.tss, vs)]
       /\ views' = Aliased(cache'.tss, vs)
  /\ last' = [op |-> "simplify", raised |-> FALSE]
  /\ UNCHANGED <<orig, nops, clone>>

NextCache ==
  \/ CacheNew
  \/ CacheReshape
  \/ CacheOp
  \/ CacheSimplify

SpecCache == InitCache /\ [][NextCache]_vars

(***************************************************************************)
(* Properties                                                              *)
(***************************************************************************)
shape_of(vs) == Top(vs).shape

\* the k-th index of a shape in row-major order, and all of them
Unrank(k, shape) ==
  [i \in 1..Len(shape) |-> (k \div prod(SubSeq(shape, i + 1, Len(shape)))) % shape[i]]
Indices(shape) == {Unrank(k, shape) : k \in 0..(prod(shape) - 1)}

Offset(vs, idxs) == expr_idxs(vs, idxs)[1]
Valid(vs, idxs) == expr_idxs(vs, idxs)[2]

\* C1: simplify() leaves the (buffer offset, validity) of every logical
\* index as it was.
C1_SimplifyPreserves ==
  Usable(views) =>
    \A idxs \in Indices(shape_of(views)) :
      expr_idxs(simplify(views), idxs) = expr_idxs(views, idxs)

\* C2: after movement operations alone, every logical index whose validity
\* is 1 resolves to an offset inside the original buffer.
C2_OffsetsGuarded ==
  Usable(views) =>
    \A idxs \in Indices(shape_of(views)) :
      Valid(views, idxs) => Offset(views, idxs) \in 0..(prod(orig) - 1)

\* a padded tracker with an invalid index whose offset lies outside the buffer
C2_Witness ==
  /\ Usable(views)
  /\ needs_valid(views)
  /\ \E idxs \in Indices(shape_of(views)) :
       ~Valid(views, idxs) /\ Offset(views, idxs) \notin 0..(prod(orig) - 1)
  /\ \E idxs \in Indices(shape_of(views)) : Valid(views, idxs)

\* the shapes of positive dims with the product of shape
SameProduct(shape) == {s \in Shapes : prod(s) = prod(shape)}

\* C3: reshape to any shape of the same product keeps the (offset, validity)
\* of the k-th element in row-major order, for every k.
C3_ReshapeKeepsOrder ==
  Usable(views) =>
    \A a \in SameProduct(shape_of(views)) :
      \A r \in {reshape(views, a)} :
      /\ ~r.raised
      /\ \A k \in 0..(prod(a) - 1) :
           expr_idxs(r.views, Unrank(k, a)) = expr_idxs(views, Unrank(k, shape_of(views)))

\* a reshape that pushed a view on a non-contiguous one
C3_Witness ==
  /\ last.op = "reshape"
  /\ ~last.raised
  /\ Len(views) = 2
  /\ ~needs_valid(views)
  /\ ~views[1].contiguous
  /\ Top(views).contiguous
  /\ Len(shape_of(views)) = 2

\* pad: the padded shape, the padding region and the index shifted back
PadShape(shape, p) == [i \in 1..Len(shape) |-> p[i][1] + shape[i] + p[i][2]]
InRegion(shape, p, j) ==
  \A i \in 1..Len(shape) : p[i][1] <= j[i] /\ j[i] < p[i][1] + shape[i]
Unpad(p, j) == [i \in 1..Len(j) |-> j[i] - p[i][1]]

\* C4 as stated: after pad(p) an index is valid iff it lies in the region
\* of the old shape, and there it resolves as the index shifted back did
\* (for every tracker an operation can be called on and every p).
C4_PadValidIffInRegion ==
  CanCall =>
    \A p \in PadArgs(shape_of(views)) :
      \A r \in {pad(views, p)} :
      /\ ~r.raised
      /\ shape_of(r.views) = PadShape(shape_of(views), p)
      /\ \A j \in Indices(shape_of(r.views)) :
           /\ Valid(r.views, j) <=> InRegion(shape_of(views), p, j)
           /\ InRegion(shape_of(views), p, j) =>
                expr_idxs(r.views, j) = expr_idxs(views, Unpad(p, j))

\* C4 amended: after pad(p) an index is valid iff it lies in the region of
\* the old shape and the index shifted back was valid before the pad; every
\* index of the region resolves as the index shifted back did (for every
\* tracker an operation can be called on and every p).
C4_PadKeepsRegion ==
  CanCall =>
    \A p \in PadArgs(shape_of(views)) :
      \A r \in {pad(views, p)} :
      /\ ~r.raised
      /\ shape_of(r.views) = PadShape(shape_of(views), p)
      /\ \A j \in Indices(shape_of(r.views)) :
           /\ Valid(r.views, j) <=>
                (InRegion(shape_of(views), p, j) /\ Valid(views, Unpad(p, j)))
           /\ InRegion(shape_of(views), p, j) =>
                expr_idxs(r.views, j) = expr_idxs(views, Unpad(p, j))

\* a pad of a tracker that was padded before: an index of the region is invalid
C4_Witness ==
  /\ last.op = "pad"
  /\ ~last.raised
  /\ Len(views) >= 5
  /\ views[Len(views) - 1].kind = "ZeroView"
  /\ \E j \in Indices(shape_of(views)) :
       /\ InRegion(views[Len(views) - 1].old_shape,
                   [i \in 1..Len(j) |-> <<-views[Len(views) - 1].arg[i][1], 0>>], j)
       /\ ~Valid(views, j)

\* the shrink that removes the padding p
Unshrink(shape, p) == [i \in 1..Len(shape) |-> <<p[i][1], p[i][1] + shape[i]>>]
SomePositive(p) == \E i \in 1..Len(p) : p[i][1] > 0 \/ p[i][2] > 0

\* C5 as stated: pad(p) with a positive amount sets needs_valid(); the
\* shrink that removes p restores the shape, and then every index is valid
\* and resolves to the offset it had.
C5_PadShrinkAllValid ==
  CanCall =>
    \A p \in PadArgs(shape_of(views)) :
      SomePositive(p) =>
        \A r1 \in {pad(views, p)} :
        \A r2 \in {shrink(r1.views, Unshrink(shape_of(views), p))} :
           /\ needs_valid(r1.views)
           /\ ~r2.raised
           /\ shape_of(r2.views) = shape_of(views)
           /\ \A j \in Indices(shape_of(views)) :
                expr_idxs(r2.views, j) = <<Offset(views, j), TRUE>>

\* C5 amended: pad(p) with a positive amount sets needs_valid(); the shrink
\* that removes p restores the shape, and then every index resolves to the
\* offset and the validity it had before the pad (validity 1 where it was 1).
C5_PadShrinkRestores ==
  CanCall =>
    \A p \in PadArgs(shape_of(views)) :
      SomePositive(p) =>
        \A r1 \in {pad(views, p)} :
        \A r2 \in {shrink(r1.views, Unshrink(shape_of(views), p))} :
           /\ needs_valid(r1.views)
           /\ ~r2.raised
           /\ shape_of(r2.views) = shape_of(views)
           /\ \A j \in Indices(shape_of(views)) :
                expr_idxs(r2.views, j) = expr_idxs(views, j)

\* a shrink that removed a padding: ZeroViews below, every index valid again
C5_Witness ==
  /\ last.op = "shrink"
  /\ ~last.raised
  /\ Usable(views)
  /\ Len(views) = 3
  /\ views[2].kind = "ZeroView"
  /\ shape_of(views) = views[2].old_shape
  /\ prod(shape_of(views)) > 1
  /\ \A j \in Indices(shape_of(views)) : Valid(views, j)

\* the identity view of a shape
IsIdentity(v, shape) ==
  /\ v.kind = "View"
  /\ v.shape = shape
  /\ v.offset = 0
  /\ v.strides = [i \in 1..Len(shape) |->
                    IF shape[i] = 1 THEN 0 ELSE prod(SubSeq(shape, i + 1, Len(shape)))]

\* C6 as stated: views[0] is the identity view of the original shape
\* (checked on the trackers whose dims are all positive).
C6_BottomIsIdentity == Usable(views) => IsIdentity(views[1], orig)

\* C6 amended: views[0] is a View (never a ZeroView), and it is the
\* identity view of the original shape right after new(shape).
C6_BottomIsView ==
  /\ views[1].kind = "View"
  /\ last.op = "new" => (Len(views) = 1 /\ IsIdentity(views[1], orig))

\* a padded tracker whose bottom view is no longer the identity
C6_Witness ==
  /\ needs_valid(views)
  /\ views[1].kind = "View"
  /\ ~IsIdentity(views[1], orig)

\* the smallest c with c * m >= s
Ceil(s, m) == CHOOSE c \in 0..s : c * m >= s /\ \A d \in 0..(c - 1) : d * m < s

\* C7: the view list is never empty and ends in a View; right after a
\* movement operation that returns, that View has the shape the operation
\* specifies (for every tracker an operation can be called on and every
\* argument of the operation).
C7_TopIsView ==
  /\ Len(views) >= 1
  /\ Top(views).kind = "View"
  /\ CanCall =>
       LET shape == shape_of(views)
           n     == Len(shape)
           After(r, s) == ~r.raised => (Top(r.views).kind = "View" /\ shape_of(r.views) = s)
       IN /\ \A a \in ReshapeArgs(shape) : After(reshape(views, a), a)
          /\ \A a \in ExpandArgs(shape) : After(expand(views, a), a)
          /\ \A a \in PermuteArgs(n) :
               After(permute(views, a), [k \in 1..n |-> shape[a[k] + 1]])
          /\ \A a \in ShrinkArgs(shape) :
               After(shrink(views, a), [i \in 1..n |-> a[i][2] - a[i][1]])
          /\ \A a \in PadArgs(shape) : After(pad(views, a), PadShape(shape, a))
          /\ \A a \in FlipArgs(shape) : After(flip(views, a), shape)
          /\ \A a \in StrideArgs(shape) :
               After(stride(views, a), [i \in 1..n |-> Ceil(shape[i], Abs(a[i]))])

\* a stride that subsampled the View on top of a ZeroView
C7_Witness ==
  /\ last.op = "stride"
  /\ ~last.raised
  /\ Len(views) >= 3
  /\ views[Len(views) - 1].kind = "ZeroView"
  /\ \E i \in 1..Len(shape_of(views)) :
       shape_of(views)[i] < views[Len(views) - 1].shape[i]

\* C8: every shape entry of every view is at least 1: a tracker whose
\* entries are keeps them so under every operation called with arguments
\* that meet its precondition (a shrink inside the shape, lo = hi included;
\* an expand the operation accepts).
InRange(shape, a) ==
  \A i \in 1..Len(a) : 0 <= a[i][1] /\ a[i][1] <= a[i][2] /\ a[i][2] <= shape[i]

C8_DimsPositive ==
  Usable(views) =>
    LET shape == shape_of(views) IN
    /\ \A a \in SameProduct(shape) : Usable(reshape(views, a).views)
    /\ \A a \in PermuteArgs(Len(shape)) : Usable(permute(views, a).views)
    /\ \A a \in PadArgs(shape) : Usable(pad(views, a).views)
    /\ \A a \in FlipArgs(shape) : Usable(flip(views, a).views)
    /\ \A a \in StrideArgs(shape) : Usable(stride(views, a).views)
    /\ Usable(simplify(views))
    /\ \A a \in ShrinkArgs(shape) : InRange(shape, a) => Usable(shrink(views, a).views)
    /\ \A a \in ExpandArgs(shape) : ~expand(views, a).raised => Usable(expand(views, a).views)

\* bounds that reach outside a shape or are reversed
OutOfRange(shape, a) ==
  \E i \in 1..Len(a) : a[i][1] < 0 \/ a[i][2] > shape[i] \/ a[i][1] > a[i][2]

\* C9: shrink with bounds out of range raises and leaves the view list
\* as it was.
C9_ShrinkRejects ==
  Usable(views) =>
    \A a \in ShrinkArgs(shape_of(views)) :
      OutOfRange(shape_of(views), a) =>
        (shrink(views, a).raised /\ shrink(views, a).views = views)

\* C10: reshape to another shape raises and leaves the view list as it
\* was when the product differs or a dim is zero or negative.
C10_ReshapeRejects ==
  Usable(views) =>
    \A a \in ReshapeArgs(shape_of(views)) :
      (a # shape_of(views)
         /\ (prod(a) # prod(shape_of(views)) \/ \E i \in 1..Len(a) : a[i] <= 0)) =>
        (reshape(views, a).raised /\ reshape(views, a).views = views)

\* C11: permute with axes that are no permutation, expand with a target
\* that disagrees with a dim that is not 1, and stride with a zero
\* multiplier each raise and leave the view list exactly as it was.
C11_InvalidRejected ==
  Usable(views) =>
    LET shape == shape_of(views)
        Rejected(r) == r.raised /\ r.views = views
    IN /\ \A a \in BadAxes(Len(shape)) : Rejected(permute(views, a))
       /\ \A a \in BadTargets(shape) : Rejected(expand(views, a))
       /\ \A a \in BadMuls(shape) : Rejected(stride(views, a))

\* a rejected call on a tracker of several views: the operation that ran
\* last raised and the views are those a pad left
C11_Witness ==
  /\ last.op \in {"permute", "expand", "stride"}
  /\ last.raised
  /\ needs_valid(views)
  /\ Len(views) = 3
  /\ BadTargets(shape_of(views)) # {}

\* multipliers without a zero
NonZeroMuls(shape) == [1..Len(shape) -> {-2, -1, 1, 2}]
\* the index of the tracker before stride(mul) that index j of the result names
StrideSource(shape, mul, j) ==
  [i \in 1..Len(shape) |->
     IF mul[i] > 0 THEN j[i] * mul[i] ELSE (shape[i] - 1) - j[i] * Abs(mul[i])]

\* C12: stride(mul) with no zero multiplier returns a tracker of shape
\* ceil(shape_i / |mul_i|) whose index j resolves to the (offset, validity)
\* of index j_i * mul_i (mul_i > 0) or (shape_i - 1) - j_i * |mul_i|
\* (mul_i < 0) before the call, and that index lies inside the old shape
\* (for every tracker an operation can be called on).
C12_StrideSubsamples ==
  CanCall =>
    LET shape == shape_of(views) IN
    \A mul \in NonZeroMuls(shape) :
      \A r \in {stride(views, mul)} :
        /\ ~r.raised
        /\ shape_of(r.views) = [i \in 1..Len(shape) |-> Ceil(shape[i], Abs(mul[i]))]
        /\ \A j \in Indices(shape_of(r.views)) :
             \A src \in {StrideSource(shape, mul, j)} :
               /\ \A i \in 1..Len(shape) : src[i] \in 0..(shape[i] - 1)
               /\ expr_idxs(r.views, j) = expr_idxs(views, src)

\* a stride by -2 that reversed and subsampled a dim of a padded tracker
C12_Witness ==
  /\ last.op = "stride"
  /\ ~last.raised
  /\ needs_valid(views)
  /\ \E i \in 1..Len(shape_of(views)) :
       /\ Top(views).strides[i] < -1
       /\ shape_of(views)[i] >= 2
       /\ Top(views).offset > 0

\* C13: flip(S) twice leaves exactly the view list the tracker had, for
\* every set S of axes.
C13_FlipTwice ==
  Usable(views) =>
    \A S \in FlipArgs(shape_of(views)) :
      \A r1 \in {flip(views, S)} :
        \A r2 \in {flip(r1.views, S)} :
          /\ ~r1.raised
          /\ ~r2.raised
          /\ r2.views = views

\* a tracker a flip left with a negative stride and a moved offset, which a
\* flip of the same axis takes to a different view list and back
C13_Witness ==
  /\ last.op = "flip"
  /\ ~last.raised
  /\ Usable(views)
  /\ Top(views).offset > 0
  /\ \E i \in 1..Len(shape_of(views)) :
       /\ Top(views).strides[i] < 0
       /\ flip(views, <<i - 1>>).views # views
       /\ flip(flip(views, <<i - 1>>).views, <<i - 1>>).views = views

\* C14: once there is a clone, a step changes the view list of at most one
\* of the two trackers: what is called on the clone leaves the origin's view
\* list (so its shape, strides, offset and index mapping) as it was, and
\* what is called on the origin leaves the clone's.
C14_CloneIndependent ==
  [][(Len(clone) = 1 /\ Len(clone') = 1) =>
       (views' = views \/ clone'[1].views = clone[1].views)]_vars

\* the clone was padded and the origin permuted after the copy
C14_Witness ==
  /\ Len(clone) = 1
  /\ Len(clone[1].views) = 3
  /\ Len(views) = 1
  /\ views # ShapeTracker_new(orig)
  /\ last.op = "permute"

\* C15: reshape to a shape of the same product lengthens the view list by
\* at most one, and not at all when the top view is contiguous, whether or
\* not it lies on other views.
C15_ReshapeGrowsOffContiguous ==
  Usable(views) =>
    \A a \in SameProduct(shape_of(views)) :
      \A r \in {reshape(views, a)} :
        /\ Len(r.views) <= Len(views) + 1
        /\ Top(views).contiguous => Len(r.views) = Len(views)

\* some bound reaches outside the shape
Outside(shape, a) == \E i \in 1..Len(a) : a[i][1] < 0 \/ a[i][2] > shape[i]
\* the bounds pad(p) hands to shrink
PadBounds(shape, p) == [i \in 1..Len(shape) |-> <<-p[i][1], shape[i] + p[i][2]>>]
\* bounds that cut one end of the first dim and reach outside at the other
MixedBounds(shape) ==
  {[i \in 1..Len(shape) |-> IF i = 1 THEN b ELSE <<0, shape[i]>>] :
     b \in {c \in {<<1, shape[1] + 1>>, <<-1, shape[1] - 1>>} : c[2] > c[1]}}

\* C16: shrink (and so pad) appends exactly a ZeroView and the identity
\* View of the new shape when some bound reaches outside the old shape;
\* otherwise (a pad of zero amounts included) the length of the view list
\* and needs_valid() stay as they were (for every tracker an operation can
\* be called on).
C16_ZeroViewIffOutside ==
  CanCall =>
    LET shape == shape_of(views)
        n     == Len(views)
    IN \A a \in ShrinkArgs(shape) \cup MixedBounds(shape)
                 \cup {PadBounds(shape, p) : p \in PadArgs(shape)} :
         \A r \in {shrink(views, a)} :
           IF Outside(shape, a)
           THEN /\ ~r.raised
                /\ Len(r.views) = n + 2
                /\ SubSeq(r.views, 1, n - 1) = SubSeq(views, 1, n - 1)
                /\ r.views[n + 1] = ZeroView(shape, a)
                /\ IsIdentity(r.views[n + 2], [i \in 1..Len(a) |-> a[i][2] - a[i][1]])
           ELSE /\ Len(r.views) = n
                /\ needs_valid(r.views) = needs_valid(views)

\* a shrink inside the shape of a padded tracker: no views were added to
\* the three the pad left
C16_Witness ==
  /\ last.op = "shrink"
  /\ ~last.raised
  /\ Usable(views)
  /\ Len(views) = 3
  /\ views[2].kind = "ZeroView"
  /\ \E i \in 1..Len(shape_of(views)) : shape_of(views)[i] < views[2].shape[i]

\* simplify() has nothing to do: fewer than two views, a top view with an
\* offset, or a ZeroView below the top view
Unsimplifiable(vs) ==
  IF Len(vs) < 2 THEN TRUE
  ELSE Top(vs).offset # 0 \/ vs[Len(vs) - 1].kind = "ZeroView"

\* C17: simplify() returns on every reachable view list; the list it leaves
\* is not longer, exposes the same shape, and is the list itself when there
\* are fewer than two views, the top view's offset is not 0 or the view
\* below the top is a ZeroView.
C17_SimplifyShrinksStack ==
  Usable(views) =>
    \A s \in {simplify(views)} :
      /\ Len(s) >= 1
      /\ Len(s) <= Len(views)
      /\ shape_of(s) = shape_of(views)
      /\ Unsimplifiable(views) => s = views

\* simplify() ran on a list whose top view has an offset and lies on a
\* View, and on return the list still has both
C17_Witness ==
  /\ last.op = "simplify"
  /\ Len(views) = 2
  /\ views[1].kind = "View"
  /\ Top(views).offset # 0
  /\ \A i \in 1..Len(shape_of(views)) :
       simplify_dim(views[1], shape_of(views)[i], Top(views).strides[i]) # <<>>

\* C18: a ZeroView of the view list stays where it is, as it is, in every
\* step (a movement operation or simplify()), so needs_valid() stays true
\* once it is.
C18_ZeroViewsStay ==
  [][\A j \in 1..Len(views) :
       views[j].kind = "ZeroView" => (Len(views') >= j /\ views'[j] = views[j])]_vars

\* two shrinks cut the padded tracker back inside the old shape: every
\* index is valid and the ZeroView is still there
C18_Witness ==
  /\ last.op = "shrink"
  /\ ~last.raised
  /\ Usable(views)
  /\ Len(views) = 3
  /\ views[2].kind = "ZeroView"
  /\ Len(shape_of(views)) = 2
  /\ Len(views[2].shape) = 2
  /\ \A i \in 1..2 : shape_of(views)[i] < views[2].shape[i]
  /\ \A j \in Indices(shape_of(views)) : Valid(views, j)

\* C19: every list the to_shape_strides table holds is the list a fresh
\* computation returns, every View the view_from_shape table holds is the
\* identity View of its shape, and the views of the tracker, which share
\* these objects, hold the merged dims of their own shape and strides.
C19_MemoIntact ==
  /\ \A k \in DOMAIN cache.tss : cache.tss[k] = to_shape_strides(k[1], k[2])
  /\ \A s \in DOMAIN cache.vfs : cache.vfs[s] = View(s, strides_for_shape(s), 0)
  /\ \A j \in 1..Len(views) :
       views[j].kind = "View" =>
         views[j].shape_strides = to_shape_strides(views[j].shape, views[j].strides)

\* a second tracker was created after a reshape of the first went through
\* the factorization of more than one merged dim
C19_Witness ==
  /\ last.op = "new"
  /\ nops = 2
  /\ \E k \in DOMAIN cache.tss : Len(cache.tss[k]) >= 2
  /\ \E s \in DOMAIN cache.vfs : s # orig

\* argument tuples one entry shorter and one entry longer than the shape
Shorter(a) == SubSeq(a, 1, Len(a) - 1)
Longer(a, x) == Append(a, x)

\* C20: permute, expand, shrink, pad and stride reject an argument tuple
\* whose length differs from the rank of the tracker, and a call they accept
\* leaves a top view whose shape and strides have the rank the tracker had.
C20_RankKeptOrRejected ==
  CanCall =>
    LET shape == shape_of(views)
        n     == Len(shape)
        whole == [i \in 1..n |-> <<0, shape[i]>>]
        none  == [i \in 1..n |-> <<0, 0>>]
        ones  == [i \in 1..n |-> 1]
        axes  == [i \in 1..n |-> i - 1]
        calls == {permute(views, Shorter(axes)), permute(views, Longer(axes, n)),
                  expand(views, Shorter(shape)), expand(views, Longer(shape, 1)),
                  shrink(views, Shorter(whole)), shrink(views, Longer(whole, <<0, 1>>)),
                  pad(views, Shorter(none)), pad(views, Longer(none, <<0, 0>>)),
                  stride(views, Shorter(ones)), stride(views, Longer(ones, 1))}
        KeepsRank(r) == /\ Len(Top(r.views).shape) = n
                        /\ Len(Top(r.views).strides) = n
    IN /\ \A r \in calls : r.raised /\ r.views = views
       /\ \A a \in PermuteArgs(n) : ~permute(views, a).raised => KeepsRank(permute(views, a))
       /\ \A a \in ExpandArgs(shape) : ~expand(views, a).raised => KeepsRank(expand(views, a))
       /\ \A a \in StrideArgs(shape) : ~stride(views, a).raised => KeepsRank(stride(views, a))
       /\ \A a \in FlipArgs(shape) : ~flip(views, a).raised => KeepsRank(flip(views, a))

====
